---- MODULE Spec2Model ----
(***************************************************************************)
(* Model of the in-memory session state and event routing of the Abyss     *)
(* Connect server (src/src/server.js): the maps users, voiceRooms,         *)
(* conversations and streams, the Socket.IO room membership the handlers   *)
(* drive with socket.join / socket.leave, and one action per socket event  *)
(* handler.  Every handler runs to completion, so every handler is one     *)
(* atomic action.                                                          *)
(*                                                                         *)
(* JavaScript strings are modelled as sequences of tokens taken from a     *)
(* prefix-free vocabulary (Rank), so that concatenation is \o, equality of *)
(* strings is equality of sequences, and the code-unit order used by       *)
(* Array.prototype.sort is the lexicographic order of the token ranks.     *)
(* The empty sequence is the empty string; Undef stands for undefined.     *)
(* Timestamps (new Date().toISOString()) and console output are left out.  *)
(***************************************************************************)
EXTENDS Naturals, Integers, Sequences, FiniteSets, TLC

VARIABLES
    conn,           \* lifecycle of each connection id: "new", "connected", "gone"
    users,          \* users Map: connection id -> user record, or NoUser
    usersOrder,     \* users Map: its keys in insertion order
    voiceRooms,     \* voiceRooms Map: room id -> [name, users, limit, createdBy]
    conversations,  \* conversations Map: conversation id -> sequence of messages
    streams,        \* streams Map: stream id -> stream record
    adapter,        \* Socket.IO rooms of each socket (socket.rooms)
    out,            \* events emitted by the handler that ran last, in order
    last,           \* the handler that ran last: [op, c, arg]
    dmLog           \* every message built by dm:send, in call order

vars == <<conn, users, usersOrder, voiceRooms, conversations, streams, adapter, out, last,
          dmLog>>

state == <<users, usersOrder, voiceRooms, conversations, streams>>

----------------------------------------------------------------------------
(* Strings *)

Undef == <<"<undefined>">>
Null == <<"<null>">>
Anonimo == <<"An\\u00f4nimo">>

\* The vocabulary, ranked in the order of the strings the tokens stand for
\* ('-' < digits < ':' < letters).  No token is a prefix of another.
Rank ==
    [t \in {"-", "11111111", "22222222", "a", "b", "c", "gaming", "general",
            "music", "stream:", "voice:"} |->
        CASE t = "-" -> 1
          [] t = "11111111" -> 2
          [] t = "22222222" -> 3
          [] t = "a" -> 4
          [] t = "b" -> 5
          [] t = "c" -> 6
          [] t = "gaming" -> 7
          [] t = "general" -> 8
          [] t = "music" -> 9
          [] t = "stream:" -> 10
          [] t = "voice:" -> 11]

\* s1 sorts at or before s2 in String comparison order.
RECURSIVE StrLeq(_, _)
StrLeq(s1, s2) ==
    IF s1 = <<>> THEN TRUE
    ELSE IF s2 = <<>> THEN FALSE
    ELSE IF Head(s1) = Head(s2) THEN StrLeq(Tail(s1), Tail(s2))
    ELSE Rank[Head(s1)] < Rank[Head(s2)]

\* [x, y].sort()
Sort2(x, y) == IF StrLeq(x, y) THEN <<x, y>> ELSE <<y, x>>

\* arr.join('-') of a two-element array
Join2(arr) == arr[1] \o <<"-">> \o arr[2]

\* `voice:${id}` and `stream:${id}`
VoiceScope(id) == <<"voice:">> \o id
StreamScope(id) == <<"stream:">> \o id

----------------------------------------------------------------------------
(* Bounds and input domains *)

\* Connection ids handed out by the transport (socket.id).
ConnIds == {<<"a">>, <<"b">>, <<"c">>}

\* Ids uuidv4().substring(0, 8) can return.
ShortIds == {<<"11111111">>, <<"22222222">>}

\* Room ids a client can name in voice:join / voice:leave.
RoomInputs == {<<"general">>, <<"gaming">>} \cup ShortIds

\* Display names and avatars a client can send.
NameInputs == {Undef, <<>>, <<"Alice">>, <<"Bob">>}
AvatarInputs == {Undef, <<"pic">>}

\* Upper bound on the number of dm:send calls in a behaviour.
MaxMsgs == 3

NoUser == [absent |-> TRUE]

----------------------------------------------------------------------------
(* Transport: who receives an emit *)

\* io.to(room): the sockets currently in the Socket.IO room.
IoTo(ad, room) == {s \in ConnIds : room \in ad[s]}

\* io.emit: every socket of the namespace.
IoAll(cn) == {s \in ConnIds : cn[s] = "connected"}

\* socket.to(room): the room without the sender.
SocketTo(ad, c, room) == IoTo(ad, room) \ {c}

Ev(name, to, p) == [ev |-> name, to |-> to, p |-> p]

\* users.get(id)?.name and users.get(id)?.avatar
NameOf(us, id) == IF id \in DOMAIN us /\ us[id] # NoUser THEN us[id].name ELSE Undef
AvatarOf(us, id) == IF id \in DOMAIN us /\ us[id] # NoUser THEN us[id].avatar ELSE Undef

\* Every enumeration order of a finite set (Map.forEach visits in insertion
\* order, which the model does not track).
RECURSIVE Orders(_)
Orders(S) ==
    IF S = {} THEN {<<>>}
    ELSE UNION {{<<x>> \o r : r \in Orders(S \ {x})} : x \in S}

RECURSIVE Flatten(_)
Flatten(ss) == IF ss = <<>> THEN <<>> ELSE Head(ss) \o Flatten(Tail(ss))

----------------------------------------------------------------------------
(* Initial state: server.js lines 25-33 *)

DefaultRoom(n) == [name |-> n, users |-> {}, limit |-> 0, createdBy |-> Undef]

Init ==
    /\ conn = [c \in ConnIds |-> "new"]
    /\ users = [c \in ConnIds |-> NoUser]
    /\ usersOrder = <<>>
    /\ voiceRooms = (<<"general">> :> DefaultRoom(<<"Sala Geral">>))
                    @@ (<<"gaming">> :> DefaultRoom(<<"Gaming">>))
                    @@ (<<"music">> :> DefaultRoom(<<"M\\u00fasica">>))
    /\ conversations = <<>>
    /\ streams = <<>>
    /\ adapter = [c \in ConnIds |-> {}]
    /\ out = <<>>
    /\ last = [op |-> "init", c |-> <<>>, arg |-> <<>>]
    /\ dmLog = <<>>

----------------------------------------------------------------------------
(* io.on('connection'): the transport accepts a connection under a fresh id *)
(* and puts the socket in the Socket.IO room named by its own id.           *)

Connection(c) ==
    /\ conn[c] = "new"
    /\ conn' = [conn EXCEPT ![c] = "connected"]
    /\ adapter' = [adapter EXCEPT ![c] = {c}]
    /\ out' = <<>>
    /\ last' = [op |-> "connection", c |-> c, arg |-> <<>>]
    /\ UNCHANGED <<users, usersOrder, voiceRooms, conversations, streams, dmLog>>

----------------------------------------------------------------------------
(* Presence: user:login *)

\* x || dflt
OrElse(x, dflt) == IF x \in {Undef, Null, <<>>} THEN dflt ELSE x

\* { ...base, ...p } restricted to the modelled fields: a field p carries wins.
Spread(base, p) ==
    [f \in DOMAIN base |-> IF f \in DOMAIN p /\ p[f] # Undef THEN p[f] ELSE base[f]]

LoginRecord(c, userData) ==
    Spread([id |-> c,
            name |-> OrElse(userData.name, Anonimo),
            avatar |-> OrElse(userData.avatar, Null),
            status |-> <<"online">>],
           userData)

\* The keys of the users Map after users.set(c, ...): a new key goes last, a
\* key already there keeps its place.
KeysAfterSet(order, c) ==
    IF \E i \in 1..Len(order) : order[i] = c THEN order ELSE Append(order, c)

\* The keys of the users Map after users.delete(c).
KeysAfterDelete(order, c) == SelectSeq(order, LAMBDA x : x # c)

\* Array.from(users.values()): one entry per key, in insertion order.
UsersList(us, order) == [i \in 1..Len(order) |-> us[order[i]]]

\* user:login that announces the user to the other sockets only.
UserLoginToOthers(c, userData) ==
    /\ conn[c] = "connected"
    /\ users' = [users EXCEPT ![c] = LoginRecord(c, userData)]
    /\ usersOrder' = KeysAfterSet(usersOrder, c)
    /\ out' = << Ev("user:online", IoAll(conn) \ {c},
                    [id |-> c, name |-> userData.name, status |-> <<"online">>]),
                 Ev("users:list", {c}, [list |-> UsersList(users', usersOrder')]) >>
    /\ last' = [op |-> "user:login", c |-> c, arg |-> userData.name]
    /\ UNCHANGED <<conn, voiceRooms, conversations, streams, adapter, dmLog>>

UserLogin(c, userData) ==
    /\ conn[c] = "connected"
    /\ users' = [users EXCEPT ![c] = LoginRecord(c, userData)]
    /\ usersOrder' = KeysAfterSet(usersOrder, c)
    /\ out' = << Ev("user:online", IoAll(conn),
                    [id |-> c, name |-> userData.name, status |-> <<"online">>]),
                 Ev("users:list", {c}, [list |-> UsersList(users', usersOrder')]) >>
    /\ last' = [op |-> "user:login", c |-> c, arg |-> userData.name]
    /\ UNCHANGED <<conn, voiceRooms, conversations, streams, adapter, dmLog>>

\* { ...user, ...userData }
Updated(user, userData) == Spread(user, userData)

\* { id: socket.id, ...userData }: the fields userData does not carry stay
\* undefined.
UpdateNotice(c, userData) ==
    Spread([id |-> c, name |-> Undef, avatar |-> Undef, status |-> Undef], userData)

\* user:update that stores and announces the payload for a socket that has
\* no record.
UserUpdateCreating(c, userData) ==
    /\ conn[c] = "connected"
    /\ last' = [op |-> "user:update", c |-> c, arg |-> userData.name]
    /\ UNCHANGED <<conn, voiceRooms, conversations, streams, adapter, dmLog>>
    /\ users' = [users EXCEPT ![c] =
                    IF users[c] # NoUser THEN Updated(users[c], userData)
                    ELSE UpdateNotice(c, userData)]
    /\ usersOrder' = KeysAfterSet(usersOrder, c)
    /\ out' = <<Ev("user:updated", IoAll(conn), UpdateNotice(c, userData))>>

UserUpdate(c, userData) ==
    /\ conn[c] = "connected"
    /\ last' = [op |-> "user:update", c |-> c, arg |-> userData.name]
    /\ UNCHANGED <<conn, voiceRooms, conversations, streams, adapter, dmLog>>
    /\ IF users[c] # NoUser
       THEN /\ users' = [users EXCEPT ![c] = Updated(users[c], userData)]
            /\ UNCHANGED usersOrder
            /\ out' = <<Ev("user:updated", IoAll(conn), UpdateNotice(c, userData))>>
       ELSE /\ out' = <<>>
            /\ UNCHANGED <<users, usersOrder>>

UserStatus(c, status) ==
    /\ conn[c] = "connected"
    /\ last' = [op |-> "user:status", c |-> c, arg |-> status]
    /\ UNCHANGED <<conn, voiceRooms, conversations, streams, adapter, dmLog>>
    /\ IF users[c] # NoUser
       THEN /\ users' = [users EXCEPT ![c].status = status]
            /\ UNCHANGED usersOrder
            /\ out' = <<Ev("user:status-changed", IoAll(conn),
                           [id |-> c, status |-> status])>>
       ELSE /\ out' = <<>>
            /\ UNCHANGED <<users, usersOrder>>

----------------------------------------------------------------------------
(* Voice rooms: voice:join, voice:leave, voice:create-room *)

\* The rooms whose member set holds c.
RoomsOf(vr, c) == {id \in DOMAIN vr : c \in vr[id].users}

\* Faulty variant of RoomFull: the limit is compared with > instead of >=.
RoomFullOffByOne(room) == room.limit > 0 /\ Cardinality(room.users) > room.limit

\* Faulty variant of RoomFull: no room is ever full.
RoomFullNever(room) == FALSE

\* room.limit > 0 && room.users.size >= room.limit
RoomFull(room) == room.limit > 0 /\ Cardinality(room.users) >= room.limit

\* Faulty variant of LeaveOthers: the forEach is left out.
LeaveOthersSkipped(vr, c) == vr

\* The forEach of voice:join: c is taken out of every room that holds it.
LeaveOthers(vr, c) ==
    [id \in DOMAIN vr |-> [vr[id] EXCEPT !.users = @ \ {c}]]

\* The voice:user-left events of that forEach, one per room left, addressed
\* to the Socket.IO room after socket.leave.
JoinLeftEvents(vr, ad, us, c, order) ==
    [i \in 1..Len(order) |->
        Ev("voice:user-left", IoTo(ad, VoiceScope(order[i])) \ {c},
           [roomId |-> order[i], userId |-> c, userName |-> NameOf(us, c)])]

\* Faulty variant of Entered: the joiner is not added to the room.
EnteredNotAdded(vr, c, roomId) == vr

\* room.users.add(socket.id)
Entered(vr, c, roomId) == [vr EXCEPT ![roomId].users = @ \cup {c}]

Participants(us, members) ==
    {[id |-> m, name |-> NameOf(us, m), avatar |-> AvatarOf(us, m)] : m \in members}

VoiceJoin(c, roomId) ==
    /\ conn[c] = "connected"
    /\ last' = [op |-> "voice:join", c |-> c, arg |-> roomId]
    /\ UNCHANGED <<conn, users, usersOrder, conversations, streams, dmLog>>
    /\ IF roomId \notin DOMAIN voiceRooms
       THEN /\ out' = <<Ev("voice:error", {c}, [message |-> <<"Sala n\\u00e3o encontrada">>])>>
            /\ UNCHANGED <<voiceRooms, adapter>>
       ELSE IF RoomFull(voiceRooms[roomId])
       THEN /\ out' = <<Ev("voice:error", {c}, [message |-> <<"Sala cheia">>])>>
            /\ UNCHANGED <<voiceRooms, adapter>>
       ELSE \E order \in Orders(RoomsOf(voiceRooms, c)) :
            LET left == LeaveOthers(voiceRooms, c)
                ad == [adapter EXCEPT ![c] =
                          (@ \ {VoiceScope(id) : id \in RoomsOf(voiceRooms, c)})
                          \cup {VoiceScope(roomId)}]
                vr == Entered(left, c, roomId)
                participants == Participants(users, vr[roomId].users)
            IN  /\ voiceRooms' = vr
                /\ adapter' = ad
                /\ out' = JoinLeftEvents(voiceRooms, adapter, users, c, order)
                          \o << Ev("voice:user-joined", SocketTo(ad, c, VoiceScope(roomId)),
                                   [roomId |-> roomId, userId |-> c,
                                    userName |-> NameOf(users, c),
                                    userAvatar |-> AvatarOf(users, c)]),
                                Ev("voice:joined", {c},
                                   [roomId |-> roomId, participants |-> participants]),
                                Ev("voice:room-updated", IoAll(conn),
                                   [roomId |-> roomId,
                                    userCount |-> Cardinality(vr[roomId].users)]) >>

VoiceLeave(c, roomId) ==
    /\ conn[c] = "connected"
    /\ last' = [op |-> "voice:leave", c |-> c, arg |-> roomId]
    /\ UNCHANGED <<conn, users, usersOrder, conversations, streams, dmLog>>
    /\ IF roomId \in DOMAIN voiceRooms /\ c \in voiceRooms[roomId].users
       THEN LET vr == [voiceRooms EXCEPT ![roomId].users = @ \ {c}]
                ad == [adapter EXCEPT ![c] = @ \ {VoiceScope(roomId)}]
            IN  /\ voiceRooms' = vr
                /\ adapter' = ad
                /\ out' = << Ev("voice:user-left", IoTo(ad, VoiceScope(roomId)),
                                [roomId |-> roomId, userId |-> c,
                                 userName |-> NameOf(users, c)]),
                             Ev("voice:room-updated", IoAll(conn),
                                [roomId |-> roomId,
                                 userCount |-> Cardinality(vr[roomId].users)]) >>
       ELSE /\ out' = <<>>
            /\ UNCHANGED <<voiceRooms, adapter>>

\* const { limit = 10 } = data; parseInt(limit).  A limit is <<>> when the
\* payload carries none and <<n>> when it carries the number n.
DefaultLimit == 10
WithDefault(lim) == IF lim = <<>> THEN DefaultLimit ELSE lim[1]
ParseLimit(lim) == WithDefault(lim)

VoiceCreateRoom(c, name, lim, roomId) ==
    /\ conn[c] = "connected"
    /\ voiceRooms' = (roomId :> [name |-> name, users |-> {},
                                 limit |-> ParseLimit(lim), createdBy |-> c])
                     @@ voiceRooms
    /\ out' = <<Ev("voice:room-created", IoAll(conn),
                   [id |-> roomId, name |-> name, limit |-> WithDefault(lim), userCount |-> 0,
                    createdBy |-> NameOf(users, c)])>>
    /\ last' = [op |-> "voice:create-room", c |-> c, arg |-> roomId]
    /\ UNCHANGED <<conn, users, usersOrder, conversations, streams, adapter, dmLog>>

----------------------------------------------------------------------------
(* WebRTC signaling: voice:offer, voice:answer, voice:ice-candidate,       *)
(* voice:speaking; stream:offer and stream:answer follow the stream        *)
(* handlers below.  No handler touches the four maps.                      *)

\* io.to(to).emit(ev, { from: socket.id, ...payload })
Relay(c, ev, to, payload) ==
    /\ conn[c] = "connected"
    /\ out' = <<Ev(ev, IoTo(adapter, to), [from |-> c, data |-> payload])>>
    /\ last' = [op |-> ev, c |-> c, arg |-> to]
    /\ UNCHANGED <<conn, users, usersOrder, voiceRooms, conversations, streams, adapter, dmLog>>

VoiceOffer(c, to, offer) == Relay(c, "voice:offer", to, [offer |-> offer])

VoiceAnswer(c, to, answer) == Relay(c, "voice:answer", to, [answer |-> answer])

VoiceIceCandidate(c, to, candidate) ==
    Relay(c, "voice:ice-candidate", to, [candidate |-> candidate])

\* The sockets socket.to(`voice:${roomId}`) reaches: the room the payload
\* names, without the sender.
SpeakingTo(ad, c, roomId) == SocketTo(ad, c, VoiceScope(roomId))

VoiceSpeaking(c, roomId, speaking) ==
    /\ conn[c] = "connected"
    /\ out' = <<Ev("voice:speaking", SpeakingTo(adapter, c, roomId),
                   [userId |-> c, speaking |-> speaking])>>
    /\ last' = [op |-> "voice:speaking", c |-> c, arg |-> roomId]
    /\ UNCHANGED <<conn, users, usersOrder, voiceRooms, conversations, streams, adapter, dmLog>>

----------------------------------------------------------------------------
(* Direct messages: dm:send, dm:history *)

\* Faulty variant of ConvId: the pair is joined without being sorted.
ConvIdUnsorted(c, other) == Join2(<<c, other>>)

\* [socket.id, to].sort().join('-')
ConvId(c, other) == Join2(Sort2(c, other))

\* const { type = 'text' } = data
TypeOrText(type) == IF type = Undef THEN <<"text">> ELSE type

\* The message object of dm:send.  uuidv4() is modelled as never repeating:
\* the n-th message of a behaviour has id n.
Message(us, c, to, text, type, n) ==
    [id |-> n, from |-> c,
     fromName |-> OrElse(NameOf(us, c), Anonimo),
     fromAvatar |-> AvatarOf(us, c),
     to |-> to, text |-> text, type |-> TypeOrText(type)]

\* Faulty variant of Stored: the message is put in front of the list.
StoredInFront(cv, convId, message) ==
    IF convId \in DOMAIN cv
    THEN [cv EXCEPT ![convId] = <<message>> \o @]
    ELSE (convId :> <<message>>) @@ cv

\* conversations with message stored under convId, the list created if absent.
Stored(cv, convId, message) ==
    IF convId \in DOMAIN cv
    THEN [cv EXCEPT ![convId] = Append(@, message)]
    ELSE (convId :> <<message>>) @@ cv

\* io.to(to).emit('dm:receive', message); socket.emit('dm:sent', message)
DmSendEvents(ad, c, to, message) ==
    << Ev("dm:receive", IoTo(ad, to), message), Ev("dm:sent", {c}, message) >>

DmSend(c, to, text, type) ==
    /\ conn[c] = "connected"
    /\ Len(dmLog) < MaxMsgs
    /\ LET message == Message(users, c, to, text, type, Len(dmLog) + 1)
       IN  /\ conversations' = Stored(conversations, ConvId(c, to), message)
           /\ out' = DmSendEvents(adapter, c, to, message)
           /\ dmLog' = Append(dmLog, message)
    /\ last' = [op |-> "dm:send", c |-> c, arg |-> to]
    /\ UNCHANGED <<conn, users, usersOrder, voiceRooms, streams, adapter>>

\* io.to(to).emit('dm:typing', { from: socket.id, name: user?.name })
DmTyping(c, to) ==
    /\ conn[c] = "connected"
    /\ out' = <<Ev("dm:typing", IoTo(adapter, to), [from |-> c, name |-> NameOf(users, c)])>>
    /\ last' = [op |-> "dm:typing", c |-> c, arg |-> to]
    /\ UNCHANGED <<conn, users, usersOrder, voiceRooms, conversations, streams, adapter, dmLog>>

\* conversations.get(convId) || []
History(cv, c, otherId) ==
    IF ConvId(c, otherId) \in DOMAIN cv THEN cv[ConvId(c, otherId)] ELSE <<>>

\* dm:history that creates the conversation it does not find.
DmHistoryCreating(c, otherId) ==
    /\ conn[c] = "connected"
    /\ out' = <<Ev("dm:history", {c}, [messages |-> History(conversations, c, otherId)])>>
    /\ last' = [op |-> "dm:history", c |-> c, arg |-> otherId]
    /\ conversations' = IF ConvId(c, otherId) \in DOMAIN conversations
                        THEN conversations
                        ELSE (ConvId(c, otherId) :> <<>>) @@ conversations
    /\ UNCHANGED <<conn, users, usersOrder, voiceRooms, streams, adapter, dmLog>>

DmHistory(c, otherId) ==
    /\ conn[c] = "connected"
    /\ out' = <<Ev("dm:history", {c}, [messages |-> History(conversations, c, otherId)])>>
    /\ last' = [op |-> "dm:history", c |-> c, arg |-> otherId]
    /\ UNCHANGED <<conn, users, usersOrder, voiceRooms, conversations, streams, adapter,
                   dmLog>>

----------------------------------------------------------------------------
(* Streams: stream:start, stream:stop, stream:watch *)

StreamStart(c, quality, fps, streamId) ==
    /\ conn[c] = "connected"
    /\ streams' = (streamId :> [id |-> streamId, userId |-> c,
                                userName |-> NameOf(users, c),
                                userAvatar |-> AvatarOf(users, c),
                                quality |-> quality, fps |-> fps, viewers |-> {}])
                  @@ streams
    /\ adapter' = [adapter EXCEPT ![c] = @ \cup {StreamScope(streamId)}]
    /\ out' = << Ev("stream:started", IoAll(conn),
                    [streamId |-> streamId, userId |-> c,
                     userName |-> NameOf(users, c),
                     userAvatar |-> AvatarOf(users, c)]),
                 Ev("stream:created", {c}, [streamId |-> streamId]) >>
    /\ last' = [op |-> "stream:start", c |-> c, arg |-> streamId]
    /\ UNCHANGED <<conn, users, usersOrder, voiceRooms, conversations, dmLog>>

\* Faulty variant of MayStop: the broadcaster is not compared.
MayStopAnyone(st, c, streamId) == streamId \in DOMAIN st

\* stream && stream.userId === socket.id
MayStop(st, c, streamId) == streamId \in DOMAIN st /\ st[streamId].userId = c

\* streams.delete(streamId)
Without(st, ids) == [id \in DOMAIN st \ ids |-> st[id]]

StreamStop(c, streamId) ==
    /\ conn[c] = "connected"
    /\ last' = [op |-> "stream:stop", c |-> c, arg |-> streamId]
    /\ UNCHANGED <<conn, users, usersOrder, voiceRooms, conversations, adapter, dmLog>>
    /\ IF MayStop(streams, c, streamId)
       THEN /\ out' = <<Ev("stream:ended", IoTo(adapter, StreamScope(streamId)),
                           [streamId |-> streamId])>>
            /\ streams' = Without(streams, {streamId})
       ELSE /\ out' = <<>>
            /\ UNCHANGED streams

\* stream:watch that takes the watcher out of every other stream's viewers.
StreamWatchExclusive(c, streamId) ==
    /\ conn[c] = "connected"
    /\ last' = [op |-> "stream:watch", c |-> c, arg |-> streamId]
    /\ UNCHANGED <<conn, users, usersOrder, voiceRooms, conversations, dmLog>>
    /\ IF streamId \in DOMAIN streams
       THEN LET st == [id \in DOMAIN streams |->
                         [streams[id] EXCEPT !.viewers =
                            IF id = streamId THEN @ \cup {c} ELSE @ \ {c}]]
                ad == [adapter EXCEPT ![c] = @ \cup {StreamScope(streamId)}]
            IN  /\ streams' = st
                /\ adapter' = ad
                /\ out' = << Ev("stream:viewer-joined", IoTo(ad, StreamScope(streamId)),
                                [streamId |-> streamId,
                                 viewerCount |-> Cardinality(st[streamId].viewers)]),
                             Ev("stream:request-offer", IoTo(ad, st[streamId].userId),
                                [viewerId |-> c]) >>
       ELSE /\ out' = <<>>
            /\ UNCHANGED <<streams, adapter>>

\* stream:watch that asks every subscriber of the stream for an offer.
StreamWatchAskingAll(c, streamId) ==
    /\ conn[c] = "connected"
    /\ last' = [op |-> "stream:watch", c |-> c, arg |-> streamId]
    /\ UNCHANGED <<conn, users, usersOrder, voiceRooms, conversations, dmLog>>
    /\ IF streamId \in DOMAIN streams
       THEN LET st == [streams EXCEPT ![streamId].viewers = @ \cup {c}]
                ad == [adapter EXCEPT ![c] = @ \cup {StreamScope(streamId)}]
            IN  /\ streams' = st
                /\ adapter' = ad
                /\ out' = << Ev("stream:viewer-joined", IoTo(ad, StreamScope(streamId)),
                                [streamId |-> streamId,
                                 viewerCount |-> Cardinality(st[streamId].viewers)]),
                             Ev("stream:request-offer", IoTo(ad, StreamScope(streamId)),
                                [viewerId |-> c]) >>
       ELSE /\ out' = <<>>
            /\ UNCHANGED <<streams, adapter>>

StreamWatch(c, streamId) ==
    /\ conn[c] = "connected"
    /\ last' = [op |-> "stream:watch", c |-> c, arg |-> streamId]
    /\ UNCHANGED <<conn, users, usersOrder, voiceRooms, conversations, dmLog>>
    /\ IF streamId \in DOMAIN streams
       THEN LET st == [streams EXCEPT ![streamId].viewers = @ \cup {c}]
                ad == [adapter EXCEPT ![c] = @ \cup {StreamScope(streamId)}]
            IN  /\ streams' = st
                /\ adapter' = ad
                /\ out' = << Ev("stream:viewer-joined", IoTo(ad, StreamScope(streamId)),
                                [streamId |-> streamId,
                                 viewerCount |-> Cardinality(st[streamId].viewers)]),
                             Ev("stream:request-offer", IoTo(ad, st[streamId].userId),
                                [viewerId |-> c]) >>
       ELSE /\ out' = <<>>
            /\ UNCHANGED <<streams, adapter>>

StreamOffer(c, to, offer, streamId) ==
    Relay(c, "stream:offer", to, [offer |-> offer, streamId |-> streamId])

StreamAnswer(c, to, answer) == Relay(c, "stream:answer", to, [answer |-> answer])

\* The server registers no listener for stream:ice-candidate: Socket.IO drops
\* the packet, nothing is emitted and nothing changes.
StreamIceCandidate(c, to, candidate) ==
    /\ conn[c] = "connected"
    /\ out' = <<>>
    /\ last' = [op |-> "stream:ice-candidate", c |-> c, arg |-> to]
    /\ UNCHANGED <<conn, users, usersOrder, voiceRooms, conversations, streams, adapter, dmLog>>

\* Array.from(streams.values()).map(...)
ActiveStreams(st) ==
    {[id |-> st[i].id, userName |-> st[i].userName, userAvatar |-> st[i].userAvatar,
      viewerCount |-> Cardinality(st[i].viewers)] : i \in DOMAIN st}

StreamList(c) ==
    /\ conn[c] = "connected"
    /\ out' = <<Ev("stream:list", {c}, [list |-> ActiveStreams(streams)])>>
    /\ last' = [op |-> "stream:list", c |-> c, arg |-> <<>>]
    /\ UNCHANGED <<conn, users, usersOrder, voiceRooms, conversations, streams, adapter, dmLog>>

----------------------------------------------------------------------------
(* socket.on('disconnect') *)

\* Faulty variant of RoomsAfterDisconnect: the member sets are left alone.
RoomsAfterDisconnectKept(vr, c) == vr

\* voiceRooms.forEach: room.users.delete(socket.id) in every room holding c.
RoomsAfterDisconnect(vr, c) ==
    [id \in DOMAIN vr |-> [vr[id] EXCEPT !.users = @ \ {c}]]

\* Faulty variant of StreamsEnded: every stream is ended, whoever broadcasts it.
StreamsEndedAll(st, c) == DOMAIN st

\* The stream ids streams.forEach deletes: those c broadcasts.
StreamsEnded(st, c) == {id \in DOMAIN st : st[id].userId = c}

\* Faulty variant of StreamsAfterDisconnect: viewer sets are left alone.
StreamsAfterDisconnectKeepViewers(st, c) ==
    [id \in DOMAIN st \ StreamsEnded(st, c) |-> st[id]]

\* Faulty variant of StreamsAfterDisconnect: c's own streams are kept.
StreamsAfterDisconnectKeepOwn(st, c) ==
    [id \in DOMAIN st |-> [st[id] EXCEPT !.viewers = @ \ {c}]]

\* streams.forEach: the streams c broadcasts are deleted, c leaves the viewer
\* set of every stream.
StreamsAfterDisconnect(st, c) ==
    [id \in DOMAIN st \ StreamsEnded(st, c) |-> [st[id] EXCEPT !.viewers = @ \ {c}]]

\* users.delete(socket.id)
UsersAfterDisconnect(us, c) == [us EXCEPT ![c] = NoUser]

DisconnectRoomEvents(vr, cn, ad, us, c, order) ==
    Flatten([i \in 1..Len(order) |->
        << Ev("voice:user-left", IoTo(ad, VoiceScope(order[i])),
              [roomId |-> order[i], userId |-> c, userName |-> NameOf(us, c)]),
           Ev("voice:room-updated", IoAll(cn),
              [roomId |-> order[i],
               userCount |-> Cardinality(vr[order[i]].users \ {c})]) >>])

DisconnectStreamEvents(ad, order) ==
    [i \in 1..Len(order) |->
        Ev("stream:ended", IoTo(ad, StreamScope(order[i])), [streamId |-> order[i]])]

\* Faulty variant of DisconnectHandler: user:offline is announced only for a
\* connection that had logged in.
DisconnectHandlerOfflineIfUser(c, cn, ad) ==
    \E ro \in Orders(RoomsOf(voiceRooms, c)), so \in Orders(StreamsEnded(streams, c)) :
        /\ voiceRooms' = RoomsAfterDisconnect(voiceRooms, c)
        /\ streams' = StreamsAfterDisconnect(streams, c)
        /\ users' = UsersAfterDisconnect(users, c)
        /\ usersOrder' = KeysAfterDelete(usersOrder, c)
        /\ out' = DisconnectRoomEvents(voiceRooms, cn, ad, users, c, ro)
                  \o DisconnectStreamEvents(ad, so)
                  \o IF users[c] = NoUser THEN <<>>
                     ELSE <<Ev("user:offline", IoAll(cn), [id |-> c])>>

\* The body of the handler, run for connection c while the namespace holds
\* the sockets of cn and the Socket.IO rooms are ad.
DisconnectHandler(c, cn, ad) ==
    \E ro \in Orders(RoomsOf(voiceRooms, c)), so \in Orders(StreamsEnded(streams, c)) :
        /\ voiceRooms' = RoomsAfterDisconnect(voiceRooms, c)
        /\ streams' = StreamsAfterDisconnect(streams, c)
        /\ users' = UsersAfterDisconnect(users, c)
        /\ usersOrder' = KeysAfterDelete(usersOrder, c)
        /\ out' = DisconnectRoomEvents(voiceRooms, cn, ad, users, c, ro)
                  \o DisconnectStreamEvents(ad, so)
                  \o <<Ev("user:offline", IoAll(cn), [id |-> c])>>

\* The transport closes the socket: it has left every Socket.IO room and the
\* namespace when the handler runs.
Disconnect(c) ==
    /\ conn[c] = "connected"
    /\ conn' = [conn EXCEPT ![c] = "gone"]
    /\ adapter' = [adapter EXCEPT ![c] = {}]
    /\ DisconnectHandler(c, conn', adapter')
    /\ last' = [op |-> "disconnect", c |-> c, arg |-> <<>>]
    /\ UNCHANGED <<conversations, dmLog>>

\* The handler invoked once more for a connection already reconciled.
DisconnectAgain(c) ==
    /\ conn[c] = "gone"
    /\ DisconnectHandler(c, conn, adapter)
    /\ last' = [op |-> "disconnect again", c |-> c, arg |-> <<>>]
    /\ UNCHANGED <<conn, adapter, conversations, dmLog>>

----------------------------------------------------------------------------
(* Specifications *)

\* Payloads of user:login.  A payload may carry an id field of its own.
IdInputs == {Undef, <<"b">>}
LoginInputs ==
    [name : NameInputs, avatar : AvatarInputs, id : IdInputs, status : {Undef}]

Alice == [name |-> <<"Alice">>, avatar |-> <<"pic">>, id |-> Undef, status |-> Undef]

\* Payloads of voice:create-room: the room name and the limit.
RoomNames == {<<"X">>}
LimitInputs == {<<>>, <<1>>, <<2>>}

\* Recipients a client can name in dm:send and dm:history: connection ids,
\* and any other string, such as the name of a Socket.IO room.
DmTargets == ConnIds \cup {VoiceScope(<<"general">>)}
TextInputs == {<<"hi">>}
TypeInputs == {Undef, <<"audio">>}

\* Stream ids a client can name, and the opaque hints of stream:start.
StreamInputs == ShortIds
QualityInputs == {<<"720p">>}
FpsInputs == {Undef}

\* Payloads of user:update and user:status.
UpdateInputs ==
    [name : {Undef, <<"Bob">>}, avatar : {Undef}, id : IdInputs, status : {Undef, <<"away">>}]
StatusInputs == {<<"away">>, <<"busy">>}

\* Destinations a client can name in a signaling event, the rooms it can
\* name in voice:speaking, and the opaque WebRTC payload.
RelayTargets == ConnIds \cup {VoiceScope(<<"general">>)}
SpeakingRooms == {<<"general">>, <<"gaming">>}
SpeakingInputs == {TRUE, FALSE}
Sdp == <<"sdp">>

Next ==
    \/ \E c \in ConnIds : Connection(c)
    \/ \E c \in ConnIds, userData \in LoginInputs : UserLogin(c, userData)
    \/ \E c \in ConnIds, roomId \in RoomInputs : VoiceJoin(c, roomId)
    \/ \E c \in ConnIds, roomId \in RoomInputs : VoiceLeave(c, roomId)
    \/ \E c \in ConnIds, name \in RoomNames, lim \in LimitInputs, roomId \in ShortIds :
          VoiceCreateRoom(c, name, lim, roomId)
    \/ \E c \in ConnIds, to \in DmTargets, text \in TextInputs, type \in TypeInputs :
          DmSend(c, to, text, type)
    \/ \E c \in ConnIds, to \in DmTargets : DmTyping(c, to)
    \/ \E c \in ConnIds, otherId \in DmTargets : DmHistory(c, otherId)
    \/ \E c \in ConnIds, q \in QualityInputs, fps \in FpsInputs, streamId \in ShortIds :
          StreamStart(c, q, fps, streamId)
    \/ \E c \in ConnIds, streamId \in StreamInputs : StreamStop(c, streamId)
    \/ \E c \in ConnIds, streamId \in StreamInputs : StreamWatch(c, streamId)
    \/ \E c \in ConnIds, userData \in UpdateInputs : UserUpdate(c, userData)
    \/ \E c \in ConnIds, status \in StatusInputs : UserStatus(c, status)
    \/ \E c \in ConnIds, to \in RelayTargets : VoiceOffer(c, to, Sdp)
    \/ \E c \in ConnIds, to \in RelayTargets : VoiceAnswer(c, to, Sdp)
    \/ \E c \in ConnIds, to \in RelayTargets : VoiceIceCandidate(c, to, Sdp)
    \/ \E c \in ConnIds, roomId \in SpeakingRooms, speaking \in SpeakingInputs :
          VoiceSpeaking(c, roomId, speaking)
    \/ \E c \in ConnIds, to \in RelayTargets, streamId \in StreamInputs :
          StreamOffer(c, to, Sdp, streamId)
    \/ \E c \in ConnIds, to \in RelayTargets : StreamAnswer(c, to, Sdp)
    \/ \E c \in ConnIds, to \in RelayTargets : StreamIceCandidate(c, to, Sdp)
    \/ \E c \in ConnIds : StreamList(c)
    \/ \E c \in ConnIds : Disconnect(c)
    \/ \E c \in ConnIds : DisconnectAgain(c)

Spec == Init /\ [][Next]_vars

\* The voice room manager under join, leave, create-room and disconnect.
VoiceRoomInputs == {<<"general">>, <<"11111111">>, <<"22222222">>}
VoiceLimits == {<<>>, <<1>>}
NextVoice ==
    \/ \E c \in ConnIds : Connection(c)
    \/ \E c \in {<<"a">>} : UserLogin(c, Alice)
    \/ \E c \in ConnIds, roomId \in VoiceRoomInputs : VoiceJoin(c, roomId)
    \/ \E c \in ConnIds, roomId \in VoiceRoomInputs : VoiceLeave(c, roomId)
    \/ \E c \in ConnIds, name \in RoomNames, lim \in VoiceLimits,
          roomId \in {<<"11111111">>} : VoiceCreateRoom(c, name, lim, roomId)
    \/ \E c \in ConnIds : Disconnect(c)

SpecVoice == Init /\ [][NextVoice]_vars

\* The conversation store, with a voice room for a recipient to sit in.
DmConns == {<<"a">>, <<"b">>}
DmPeers == DmConns \cup {VoiceScope(<<"general">>)}
NextDm ==
    \/ \E c \in DmConns : Connection(c)
    \/ \E c \in {<<"a">>} : UserLogin(c, Alice)
    \/ \E c \in {<<"b">>} : VoiceJoin(c, <<"general">>)
    \/ \E c \in DmConns, to \in DmPeers, text \in TextInputs, type \in {Undef} :
          DmSend(c, to, text, type)
    \/ \E c \in DmConns, otherId \in DmPeers : DmHistory(c, otherId)
    \/ \E c \in DmConns : Disconnect(c)

SpecDm == Init /\ [][NextDm]_vars

\* The conversation store next to the presence registry: the sender's record
\* is absent, nameless, named, and changes after a message was stored.
Nameless == [name |-> <<>>, avatar |-> Undef, id |-> Undef, status |-> Undef]
Renamed == [name |-> <<"Bob">>, avatar |-> Undef, id |-> Undef, status |-> Undef]
NextDmUsers ==
    \/ \E c \in DmConns : Connection(c)
    \/ \E c \in {<<"a">>}, userData \in {Nameless, Alice} : UserLogin(c, userData)
    \/ \E c \in {<<"a">>} : UserUpdate(c, Renamed)
    \/ \E c \in {<<"a">>} : UserStatus(c, <<"away">>)
    \/ \E c \in {<<"a">>}, to \in DmConns, text \in TextInputs, type \in {Undef} :
          DmSend(c, to, text, type)
    \/ \E c \in {<<"b">>}, otherId \in DmConns : DmHistory(c, otherId)
    \/ \E c \in DmConns : Disconnect(c)

SpecDmUsers == Init /\ [][NextDmUsers]_vars

\* The conversation store when the peer a client names is any string: a
\* connection id, or two ids joined by the '-' the conversation key is built
\* with.
KeyConns == {<<"a">>, <<"c">>}
KeyPeers == KeyConns \cup {<<"a", "-", "b">>, <<"b", "-", "c">>}
NextDmKeys ==
    \/ \E c \in KeyConns : Connection(c)
    \/ \E c \in KeyConns, to \in KeyPeers, text \in TextInputs, type \in {Undef} :
          DmSend(c, to, text, type)
    \/ \E c \in KeyConns, otherId \in KeyPeers : DmHistory(c, otherId)
    \/ \E c \in KeyConns : Disconnect(c)

SpecDmKeys == Init /\ [][NextDmKeys]_vars

\* The stream registry and the disconnect reconciler.
StreamConns == {<<"a">>, <<"b">>}
NextStream ==
    \/ \E c \in StreamConns : Connection(c)
    \/ \E c \in {<<"a">>} : UserLogin(c, Alice)
    \/ \E c \in StreamConns : VoiceJoin(c, <<"general">>)
    \/ \E c \in StreamConns, q \in QualityInputs, fps \in FpsInputs, streamId \in ShortIds :
          StreamStart(c, q, fps, streamId)
    \/ \E c \in StreamConns, streamId \in StreamInputs : StreamStop(c, streamId)
    \/ \E c \in StreamConns, streamId \in StreamInputs : StreamWatch(c, streamId)
    \/ \E c \in StreamConns : StreamList(c)
    \/ \E c \in StreamConns : Disconnect(c)
    \/ \E c \in StreamConns : DisconnectAgain(c)

SpecStream == Init /\ [][NextStream]_vars

\* The presence registry under login, update, status and disconnect.
PresenceConns == {<<"a">>, <<"b">>}
NextPresence ==
    \/ \E c \in PresenceConns : Connection(c)
    \/ \E c \in PresenceConns, userData \in LoginInputs : UserLogin(c, userData)
    \/ \E c \in PresenceConns, userData \in UpdateInputs : UserUpdate(c, userData)
    \/ \E c \in PresenceConns, status \in StatusInputs : UserStatus(c, status)
    \/ \E c \in PresenceConns : Disconnect(c)

SpecPresence == Init /\ [][NextPresence]_vars

\* The signaling relay and the typing notice, with voice rooms for senders and receivers to sit in.
NextRelay ==
    \/ \E c \in ConnIds : Connection(c)
    \/ \E c \in ConnIds, roomId \in SpeakingRooms : VoiceJoin(c, roomId)
    \/ \E c \in ConnIds, to \in RelayTargets : VoiceOffer(c, to, Sdp)
    \/ \E c \in ConnIds, to \in RelayTargets : VoiceAnswer(c, to, Sdp)
    \/ \E c \in ConnIds, to \in RelayTargets : VoiceIceCandidate(c, to, Sdp)
    \/ \E c \in ConnIds, roomId \in SpeakingRooms, speaking \in SpeakingInputs :
          VoiceSpeaking(c, roomId, speaking)
    \/ \E c \in ConnIds, to \in RelayTargets, streamId \in {<<"11111111">>} :
          StreamOffer(c, to, Sdp, streamId)
    \/ \E c \in ConnIds, to \in RelayTargets : StreamAnswer(c, to, Sdp)
    \/ \E c \in ConnIds, to \in RelayTargets : StreamIceCandidate(c, to, Sdp)
    \/ \E c \in ConnIds, to \in RelayTargets : DmTyping(c, to)
    \/ \E c \in ConnIds : Disconnect(c)

SpecRelay == Init /\ [][NextRelay]_vars

----------------------------------------------------------------------------
(* Claims *)

\* The positions in the event list o of the events named name.
EvIdx(o, name) == {i \in 1..Len(o) : o[i].ev = name}

\* The handler that ran last was a voice:join that did not answer voice:error.
JoinedOk(l, o) == l.op = "voice:join" /\ EvIdx(o, "voice:error") = {}

\* C1: in every reachable state each connection id is in the member set of
\* at most one voice room.
C1_AtMostOneRoom ==
    \A c \in ConnIds : Cardinality(RoomsOf(voiceRooms, c)) <= 1

\* C1 witness: a connection has just moved from one room to another while a
\* different connection sits in a room.
C1_Witness ==
    /\ JoinedOk(last, out)
    /\ EvIdx(out, "voice:user-left") # {}
    /\ RoomsOf(voiceRooms, last.c) = {last.arg}
    /\ \E d \in ConnIds \ {last.c} : RoomsOf(voiceRooms, d) # {}

\* C2 (as stated): a successful join of R2 by a member of R1 emits exactly one
\* user-left, received by exactly R1's remaining members, and exactly one
\* user-joined, received by exactly R2's other members and not the joiner;
\* no join emits user-left for a room the joiner was not in.
C2_JoinEvents ==
    [][ JoinedOk(last', out') =>
          LET c == last'.c
              R2 == last'.arg
              lefts == EvIdx(out', "voice:user-left")
              joins == EvIdx(out', "voice:user-joined")
          IN  /\ \A i \in lefts :
                    /\ out'[i].p.roomId \in RoomsOf(voiceRooms, c)
                    /\ out'[i].p.userId = c
              /\ \A R1 \in RoomsOf(voiceRooms, c) \ {R2} :
                    /\ Cardinality({i \in lefts : out'[i].p.roomId = R1}) = 1
                    /\ \A i \in lefts : out'[i].p.roomId = R1 =>
                          out'[i].to = voiceRooms'[R1].users
                    /\ Cardinality(joins) = 1
                    /\ \A i \in joins :
                          /\ out'[i].p.roomId = R2
                          /\ out'[i].p.userId = c
                          /\ out'[i].to = voiceRooms'[R2].users \ {c}
       ]_vars

\* C3 (as stated): a successful join that moves a connection out of R1 into
\* R2 emits voice:room-updated to all connections for both rooms, each with
\* the room's new member count.
C3_BothRoomsUpdated ==
    [][ JoinedOk(last', out') =>
          \A R \in (RoomsOf(voiceRooms, last'.c) \cup {last'.arg}) :
             \E i \in EvIdx(out', "voice:room-updated") :
                /\ out'[i].p.roomId = R
                /\ out'[i].p.userCount = Cardinality(voiceRooms'[R].users)
                /\ out'[i].to = IoAll(conn')
       ]_vars

\* C4: a join of an unknown room answers RoomNotFound, a join of a room whose
\* limit is > 0 and reached answers RoomFull; in both cases the only event is
\* a voice:error to the caller and no member set or subscription changes.
C4_JoinFailure ==
    [][ last'.op = "voice:join" =>
          LET c == last'.c
              r == last'.arg
              unknown == r \notin DOMAIN voiceRooms
              full == /\ r \in DOMAIN voiceRooms
                      /\ voiceRooms[r].limit > 0
                      /\ Cardinality(voiceRooms[r].users) >= voiceRooms[r].limit
          IN  /\ unknown =>
                    out' = <<Ev("voice:error", {c},
                                [message |-> <<"Sala n\\u00e3o encontrada">>])>>
              /\ full =>
                    out' = <<Ev("voice:error", {c}, [message |-> <<"Sala cheia">>])>>
              /\ (unknown \/ full) => UNCHANGED <<state, adapter, conn>>
              /\ ~(unknown \/ full) => EvIdx(out', "voice:error") = {}
       ]_vars

\* C4 witness: a member of one room was refused by a full room and is still
\* a member of the room it was in.
C4_Witness ==
    /\ last.op = "voice:join"
    /\ out = <<Ev("voice:error", {last.c}, [message |-> <<"Sala cheia">>])>>
    /\ RoomsOf(voiceRooms, last.c) # {}
    /\ last.arg \notin RoomsOf(voiceRooms, last.c)

\* C5 (as stated): once both of two connections have joined "general", both
\* have received a participant list of size 2: the join that completes the
\* pair delivers a voice:joined list of size 2 to each of the two members.
C5_BothReceiveTwo ==
    [][ ( /\ JoinedOk(last', out')
          /\ last'.arg = <<"general">>
          /\ Cardinality(voiceRooms[<<"general">>].users) = 1
          /\ Cardinality(voiceRooms'[<<"general">>].users) = 2 ) =>
          \A m \in voiceRooms'[<<"general">>].users :
             \E i \in EvIdx(out', "voice:joined") :
                /\ m \in out'[i].to
                /\ Cardinality(out'[i].p.participants) = 2
       ]_vars

\* C5 (amended): every successful join delivers exactly one voice:joined, to
\* the joiner alone, whose participants are the room's members before the
\* join together with the joiner, names and avatars read from users; the
\* members already in the room get voice:user-joined and no list.
C5_JoinerReceivesMembership ==
    [][ JoinedOk(last', out') =>
          LET c == last'.c
              r == last'.arg
              lists == EvIdx(out', "voice:joined")
          IN  /\ Cardinality(lists) = 1
              /\ \A i \in lists :
                    /\ out'[i].to = {c}
                    /\ out'[i].p.roomId = r
                    /\ {q.id : q \in out'[i].p.participants}
                          = voiceRooms[r].users \cup {c}
                    /\ \A q \in out'[i].p.participants :
                          /\ q.name = NameOf(users, q.id)
                          /\ q.avatar = AvatarOf(users, q.id)
              /\ \A i \in EvIdx(out', "voice:user-joined") : c \notin out'[i].to
       ]_vars

\* C5 witness: the second of two connections has joined "general" and got a
\* list of size 2.
C5_Witness ==
    /\ JoinedOk(last, out)
    /\ last.arg = <<"general">>
    /\ Cardinality(voiceRooms[<<"general">>].users) = 2
    /\ \E i \in EvIdx(out, "voice:joined") :
          /\ out[i].to = {last.c}
          /\ Cardinality(out[i].p.participants) = 2
    /\ \E i \in EvIdx(out, "voice:user-joined") :
          out[i].to = voiceRooms[<<"general">>].users \ {last.c}

\* The log holds n dm:send calls that alternate a -> b, b -> a, a -> b, ...
Alternating(log, a, b) ==
    \A i \in 1..Len(log) :
        IF i % 2 = 1
        THEN log[i].from = a /\ log[i].to = b
        ELSE log[i].from = b /\ log[i].to = a

\* C6: when the only dm:send calls so far are N calls alternating between a
\* and b, the history a requests with b is exactly those N messages in call
\* order, and it is the history b requests with a.
C6_AlternatingHistory ==
    \A a \in ConnIds, b \in ConnIds :
        Alternating(dmLog, a, b) =>
            /\ History(conversations, a, b) = dmLog
            /\ History(conversations, b, a) = History(conversations, a, b)

\* C6 witness: three alternating messages between two different connections
\* have been stored and one of the two has just asked for the history.
C6_Witness ==
    /\ Len(dmLog) = 3
    /\ Alternating(dmLog, <<"b">>, <<"a">>)
    /\ last.op = "dm:history"
    /\ last.c = <<"a">> /\ last.arg = <<"b">>
    /\ out[1].p.messages = dmLog

\* C7 (as stated): every dm:send from s to t stores exactly one message in the
\* conversation of (s, t), delivers it exactly once to t when t is a connected
\* connection and to no one otherwise, and acknowledges it once to s with the
\* same message id.
C7_SendRouting ==
    [][ last'.op = "dm:send" =>
          LET s == last'.c
              t == last'.arg
              recv == EvIdx(out', "dm:receive")
              acks == EvIdx(out', "dm:sent")
          IN  /\ Len(History(conversations', s, t)) = Len(History(conversations, s, t)) + 1
              /\ Cardinality(recv) = 1
              /\ Cardinality(acks) = 1
              /\ \A i \in recv, j \in acks :
                    /\ out'[i].to = IF t \in ConnIds /\ conn[t] = "connected"
                                    THEN {t} ELSE {}
                    /\ out'[j].to = {s}
                    /\ out'[j].p.id = out'[i].p.id
                    /\ out'[i].p = History(conversations', s, t)[Len(History(conversations', s, t))]
       ]_vars

\* C8: after the disconnect handler has run for c there is no stream that c
\* broadcasts, c is in no viewer set, in no room's member set, and has no
\* record in users.
C8_DisconnectCleansUp ==
    last.op \in {"disconnect", "disconnect again"} =>
        /\ \A id \in DOMAIN streams :
              streams[id].userId # last.c /\ last.c \notin streams[id].viewers
        /\ RoomsOf(voiceRooms, last.c) = {}
        /\ users[last.c] = NoUser

\* C8 witness: the connection that disconnected broadcast a stream (its end
\* was announced), sat in a room (its leaving was announced), and a stream of
\* another connection is still there.
C8_Witness ==
    /\ last.op = "disconnect"
    /\ EvIdx(out, "stream:ended") # {}
    /\ EvIdx(out, "voice:user-left") # {}
    /\ \E id \in DOMAIN streams : streams[id].viewers # {}

\* C9: running the disconnect handler again for a connection already
\* reconciled leaves users, voiceRooms, streams and conversations as they are.
C9_DisconnectIdempotent ==
    [][ last'.op = "disconnect again" => UNCHANGED state ]_vars

\* C9 witness: the handler ran a second time while another connection is
\* logged in or in a room and a stream exists.
C9_Witness ==
    /\ last.op = "disconnect again"
    /\ DOMAIN streams # {}
    /\ \E id \in DOMAIN voiceRooms : voiceRooms[id].users # {}

\* C10: stream:stop for an unknown stream, or from a connection that is not
\* the stream's broadcaster, leaves the stream registry as it is and emits
\* nothing.
C10_StopByOther ==
    [][ ( /\ last'.op = "stream:stop"
          /\ ~(last'.arg \in DOMAIN streams /\ streams[last'.arg].userId = last'.c) ) =>
          /\ streams' = streams
          /\ out' = <<>>
       ]_vars

\* C10 witness: a connection that is not the broadcaster asked to stop a
\* stream that has a viewer, and the stream is still there.
C10_Witness ==
    /\ last.op = "stream:stop"
    /\ last.arg \in DOMAIN streams
    /\ streams[last.arg].userId # last.c
    /\ streams[last.arg].viewers # {}
    /\ out = <<>>

\* C11: stream:stop by the broadcaster delivers stream:ended to exactly the
\* broadcaster and the connections in the stream's viewer set and removes
\* the stream, and stream:list answers with the streams of the registry
\* only, so it omits a stopped stream.
C11_StopReachesViewers ==
    [][ /\ ( /\ last'.op = "stream:stop"
             /\ last'.arg \in DOMAIN streams
             /\ streams[last'.arg].userId = last'.c ) =>
             /\ Len(out') = 1
             /\ out'[1].ev = "stream:ended"
             /\ out'[1].to = {streams[last'.arg].userId} \cup streams[last'.arg].viewers
             /\ last'.arg \notin DOMAIN streams'
        /\ last'.op = "stream:list" =>
             {e.id : e \in out'[1].p.list} = DOMAIN streams
       ]_vars

\* C12: stream:watch on an existing stream adds the watcher to the viewer
\* set, delivers the new viewer count to the broadcaster and all viewers,
\* the new one included, and asks the broadcaster's connection and no other
\* for an offer naming the viewer; on an unknown stream it changes no state
\* and emits nothing.
C12_Watch ==
    [][ last'.op = "stream:watch" =>
          LET c == last'.c
              id == last'.arg
          IN  IF id \in DOMAIN streams
              THEN /\ streams' = [streams EXCEPT ![id].viewers = @ \cup {c}]
                   /\ Len(out') = 2
                   /\ out'[1].ev = "stream:viewer-joined"
                   /\ out'[1].p.viewerCount = Cardinality(streams'[id].viewers)
                   /\ ({streams[id].userId} \cup streams'[id].viewers) \subseteq out'[1].to
                   /\ out'[2].ev = "stream:request-offer"
                   /\ out'[2].to = {streams[id].userId}
                   /\ out'[2].p.viewerId = c
              ELSE /\ state' = state
                   /\ out' = <<>>
       ]_vars

\* C12 witness: a second viewer, not the broadcaster, has just joined a
\* stream, and the count of two reached it.
C12_Witness ==
    /\ last.op = "stream:watch"
    /\ last.arg \in DOMAIN streams
    /\ streams[last.arg].userId # last.c
    /\ Cardinality(streams[last.arg].viewers) = 2
    /\ Len(out) = 2
    /\ last.c \in out[1].to
    /\ out[1].p.viewerCount = 2

\* C13: every stream of the registry has a broadcaster that is connected;
\* the broadcaster's stream:stop removes the stream, and a disconnect removes
\* every stream of the disconnecting broadcaster in the same step.
C13_BroadcasterAlive ==
    [][ /\ \A id \in DOMAIN streams' : conn'[streams'[id].userId] = "connected"
        /\ ( /\ last'.op = "stream:stop"
             /\ last'.arg \in DOMAIN streams
             /\ streams[last'.arg].userId = last'.c ) =>
             last'.arg \notin DOMAIN streams'
        /\ last'.op \in {"disconnect", "disconnect again"} =>
             \A id \in DOMAIN streams' : streams'[id].userId # last'.c
       ]_vars

\* C13 witness: a broadcaster with a stream that had a viewer has just
\* disconnected; its stream is gone while the viewer is still connected.
C13_Witness ==
    /\ last.op = "disconnect"
    /\ \E i \in 1..Len(out) :
          /\ out[i].ev = "stream:ended"
          /\ out[i].to # {}
          /\ out[i].p.streamId \notin DOMAIN streams

\* C14 as stated: on user:login by c the online notification reaches all
\* other connections and not c itself, and the users snapshot, holding c's
\* new record, reaches c only.
C14_OnlineToOthers ==
    [][ last'.op = "user:login" =>
          LET c == last'.c
          IN  /\ Len(out') = 2
              /\ out'[1].ev = "user:online"
              /\ out'[1].to = {x \in ConnIds : conn[x] = "connected"} \ {c}
              /\ out'[2].ev = "users:list"
              /\ out'[2].to = {c}
              /\ \E i \in 1..Len(out'[2].p.list) : out'[2].p.list[i] = users'[c]
       ]_vars

\* C14 amended: on user:login by c the online notification reaches every
\* connected connection, c itself included, and the users snapshot, holding
\* c's new record and every other record, reaches c only.
C14_OnlineToAll ==
    [][ last'.op = "user:login" =>
          LET c == last'.c
          IN  /\ Len(out') = 2
              /\ out'[1].ev = "user:online"
              /\ out'[1].p.id = c
              /\ out'[1].to = {x \in ConnIds : conn[x] = "connected"}
              /\ c \in out'[1].to
              /\ out'[2].ev = "users:list"
              /\ out'[2].to = {c}
              /\ users'[c] # NoUser
              /\ \E ord \in Orders({y \in ConnIds : users'[y] # NoUser}) :
                   /\ out'[2].p.list = [i \in 1..Len(ord) |-> users'[ord[i]]]
                   /\ \E i \in 1..Len(ord) : ord[i] = c
       ]_vars

\* C14 witness: a second connection has just logged in; the notification
\* went to both connections and the snapshot of two records to it alone.
C14_Witness ==
    /\ last.op = "user:login"
    /\ Cardinality(out[1].to) = 2
    /\ last.c \in out[1].to
    /\ out[2].to = {last.c}
    /\ Len(out[2].p.list) = 2

\* C15: user:login by c stores a record for c, replacing any earlier one and
\* touching no other record; the stored name is the sentinel whenever the
\* payload supplies no usable name (none, or the empty string) and the
\* supplied name otherwise; the stored avatar is absent (null) whenever the
\* payload supplies none.
C15_LoginRecord ==
    [][ \A c \in ConnIds, userData \in LoginInputs :
          UserLogin(c, userData) =>
            /\ users'[c] # NoUser
            /\ \A x \in ConnIds \ {c} : users'[x] = users[x]
            /\ users'[c].name = IF userData.name \in {Undef, <<>>}
                                THEN Anonimo ELSE userData.name
            /\ users'[c].avatar = IF userData.avatar = Undef
                                  THEN Null ELSE userData.avatar
       ]_vars

\* C16: user:update and user:status from a connection without a presence
\* record create no record and broadcast nothing; with a record, only that
\* connection's record changes (the supplied fields, or the status) and one
\* notification goes to all connected connections.
C16_UpdateAndStatus ==
    [][ last'.op \in {"user:update", "user:status"} =>
          LET c == last'.c
          IN  IF users[c] = NoUser
              THEN /\ users' = users
                   /\ out' = <<>>
              ELSE /\ \A x \in ConnIds \ {c} : users'[x] = users[x]
                   /\ users'[c] # NoUser
                   /\ Len(out') = 1
                   /\ out'[1].to = {x \in ConnIds : conn[x] = "connected"}
                   /\ IF last'.op = "user:status"
                      THEN /\ out'[1].ev = "user:status-changed"
                           /\ out'[1].p.id = c
                           /\ out'[1].p.status = last'.arg
                           /\ users'[c] = [users[c] EXCEPT !.status = last'.arg]
                      ELSE /\ out'[1].ev = "user:updated"
                           /\ users'[c].id \in {users[c].id, out'[1].p.id}
                           /\ \A f \in {"name", "avatar", "status"} :
                                users'[c][f] = IF out'[1].p[f] # Undef
                                               THEN out'[1].p[f] ELSE users[c][f]
       ]_vars

\* C16 witness: a connection without a record has just sent user:update;
\* nothing was emitted and it still has no record, while another connection
\* is logged in.
C16_Witness ==
    /\ last.op = "user:update"
    /\ users[last.c] = NoUser
    /\ out = <<>>
    /\ \E x \in ConnIds : users[x] # NoUser

\* C17: a signaling event (voice:offer, voice:answer, voice:ice-candidate,
\* stream:offer, stream:answer) sent by s with destination d is delivered to
\* at most one connection, the connected one whose id is d, with from = s; to
\* nobody when no connection has id d; and it changes no state.
SignalEvents ==
    {"voice:offer", "voice:answer", "voice:ice-candidate", "stream:offer", "stream:answer"}

C17_RelayToOne ==
    [][ last'.op \in SignalEvents =>
          /\ Len(out') = 1
          /\ out'[1].ev = last'.op
          /\ out'[1].p.from = last'.c
          /\ out'[1].to = {x \in ConnIds : x = last'.arg /\ conn[x] = "connected"}
          /\ state' = state
       ]_vars

\* C18: voice:speaking sent by s is delivered to exactly the other members
\* of the voice room s belongs to: never to s, never to members of a room s
\* is not in, and to no one when s is in no room.
C18_SpeakingToOwnRoom ==
    [][ last'.op = "voice:speaking" =>
          LET s == last'.c
          IN  /\ Len(out') = 1
              /\ out'[1].ev = "voice:speaking"
              /\ out'[1].p.userId = s
              /\ out'[1].to =
                   UNION {voiceRooms[r].users : r \in RoomsOf(voiceRooms, s)} \ {s}
       ]_vars

\* C19: voice:leave of a room that does not exist or that the connection is
\* not a member of changes nothing and emits nothing; otherwise it removes
\* the connection from exactly that room, emits voice:user-left to the
\* remaining members of the room only, and voice:room-updated with the new
\* count to all connections.
C19_Leave ==
    [][ last'.op = "voice:leave" =>
          LET c == last'.c
              r == last'.arg
          IN  IF r \in DOMAIN voiceRooms /\ c \in voiceRooms[r].users
              THEN /\ voiceRooms' = [voiceRooms EXCEPT ![r].users = @ \ {c}]
                   /\ Len(out') = 2
                   /\ out'[1].ev = "voice:user-left"
                   /\ out'[1].p.userId = c
                   /\ out'[1].to = voiceRooms'[r].users
                   /\ out'[2].ev = "voice:room-updated"
                   /\ out'[2].to = {x \in ConnIds : conn[x] = "connected"}
                   /\ out'[2].p.userCount = Cardinality(voiceRooms'[r].users)
              ELSE /\ state' = state
                   /\ out' = <<>>
       ]_vars

\* C20: voice:create-room stores the new empty room under an id that no
\* existing room has: the room set grows by exactly one and every room that
\* existed keeps its name, capacity, creator and members.
C20_FreshRoomId ==
    [][ last'.op = "voice:create-room" =>
          LET r == last'.arg
          IN  /\ r \notin DOMAIN voiceRooms
              /\ DOMAIN voiceRooms' = DOMAIN voiceRooms \cup {r}
              /\ Cardinality(DOMAIN voiceRooms') = Cardinality(DOMAIN voiceRooms) + 1
              /\ voiceRooms'[r].users = {}
              /\ \A id \in DOMAIN voiceRooms : voiceRooms'[id] = voiceRooms[id]
       ]_vars

\* C21: stream:start creates a stream under an id that no existing stream
\* has, with the caller as broadcaster and no viewers, leaves every existing
\* stream as it is, broadcasts stream:started to all connections and sends
\* stream:created to the broadcaster alone.
C21_FreshStreamId ==
    [][ last'.op = "stream:start" =>
          LET c == last'.c
              id == last'.arg
          IN  /\ id \notin DOMAIN streams
              /\ DOMAIN streams' = DOMAIN streams \cup {id}
              /\ streams'[id].userId = c
              /\ streams'[id].viewers = {}
              /\ \A x \in DOMAIN streams : streams'[x] = streams[x]
              /\ Len(out') = 2
              /\ out'[1].ev = "stream:started"
              /\ out'[1].to = {x \in ConnIds : conn[x] = "connected"}
              /\ out'[1].p.streamId = id
              /\ out'[2].ev = "stream:created"
              /\ out'[2].to = {c}
       ]_vars

\* C22: on every disconnect no reconciler step is skipped and the steps run
\* in order: for each room the connection was in, voice:user-left reaches
\* that room's remaining members and a voice:room-updated to all carries the
\* decremented count; then for each stream it broadcast, stream:ended goes to
\* the stream's scope and the stream is deleted; user:offline goes to all
\* remaining connections last, also for a connection that never logged in
\* and was in no room or stream.
C22_DisconnectSteps ==
    [][ last'.op = "disconnect" =>
          LET c == last'.c
              rooms == {r \in DOMAIN voiceRooms : c \in voiceRooms[r].users}
              ended == {id \in DOMAIN streams : streams[id].userId = c}
              remaining == {x \in ConnIds : conn'[x] = "connected"}
              nr == Cardinality(rooms)
              ns == Cardinality(ended)
          IN  /\ Len(out') = 2 * nr + ns + 1
              /\ {out'[2 * i - 1].p.roomId : i \in 1..nr} = rooms
              /\ \A i \in 1..nr :
                   LET r == out'[2 * i - 1].p.roomId
                   IN  /\ out'[2 * i - 1].ev = "voice:user-left"
                       /\ out'[2 * i - 1].p.userId = c
                       /\ (voiceRooms[r].users \ {c}) \subseteq out'[2 * i - 1].to
                       /\ c \notin out'[2 * i - 1].to
                       /\ out'[2 * i].ev = "voice:room-updated"
                       /\ out'[2 * i].p.roomId = r
                       /\ out'[2 * i].to = remaining
                       /\ out'[2 * i].p.userCount = Cardinality(voiceRooms[r].users) - 1
              /\ {out'[2 * nr + j].p.streamId : j \in 1..ns} = ended
              /\ \A j \in 1..ns :
                   LET id == out'[2 * nr + j].p.streamId
                   IN  /\ out'[2 * nr + j].ev = "stream:ended"
                       /\ out'[2 * nr + j].to =
                            {x \in ConnIds : StreamScope(id) \in adapter'[x]}
                       /\ (streams[id].viewers \ {c}) \subseteq out'[2 * nr + j].to
                       /\ id \notin DOMAIN streams'
              /\ out'[Len(out')].ev = "user:offline"
              /\ out'[Len(out')].p.id = c
              /\ out'[Len(out')].to = remaining
       ]_vars

\* C22 witness: a connection that never logged in, sat in a room with
\* another member and broadcast a stream with a viewer has just disconnected:
\* user-left, room-updated, stream-ended and offline were emitted in that
\* order.
C22_Witness ==
    /\ last.op = "disconnect"
    /\ last.c = <<"b">>
    /\ Len(out) = 4
    /\ out[1].ev = "voice:user-left" /\ out[1].to # {}
    /\ out[2].ev = "voice:room-updated"
    /\ out[3].ev = "stream:ended" /\ out[3].to # {}
    /\ out[4].ev = "user:offline" /\ out[4].to # {}

\* C23: the relay forwards offer, answer and ice-candidate of both the voice
\* flow and the stream flow: for each of the six events, a send from a
\* connected s addressed to a connected d results in one delivery of that
\* event to d.
C23_SixEventsForwarded ==
    [][ ( /\ last'.op \in SignalEvents \cup {"stream:ice-candidate"}
          /\ last'.arg \in ConnIds
          /\ conn[last'.arg] = "connected" ) =>
          /\ Len(out') = 1
          /\ out'[1].ev = last'.op
          /\ out'[1].to = {last'.arg}
          /\ out'[1].p.from = last'.c
       ]_vars

\* C24: viewers have no exclusivity: stream:watch of S2 by a viewer of S1
\* leaves the viewer set of S1 and every stream other than S2 unchanged, so
\* the connection is afterwards a viewer of both; and stream:watch,
\* stream:start and stream:stop leave every voice room's members unchanged.
C24_NoViewerExclusivity ==
    [][ /\ last'.op = "stream:watch" =>
             /\ DOMAIN streams' = DOMAIN streams
             /\ \A id \in DOMAIN streams \ {last'.arg} : streams'[id] = streams[id]
             /\ \A id \in DOMAIN streams :
                  last'.c \in streams[id].viewers => last'.c \in streams'[id].viewers
             /\ last'.arg \in DOMAIN streams => last'.c \in streams'[last'.arg].viewers
        /\ last'.op \in {"stream:watch", "stream:start", "stream:stop"} =>
             voiceRooms' = voiceRooms
       ]_vars

\* C24 witness: a member of a voice room that was a viewer of one stream has
\* just watched a second one and is a viewer of both.
C24_Witness ==
    /\ last.op = "stream:watch"
    /\ Cardinality({id \in DOMAIN streams : last.c \in streams[id].viewers}) = 2
    /\ \E r \in DOMAIN voiceRooms : last.c \in voiceRooms[r].users

\* C25: the voice room a connection c is in changes only through c's own
\* voice:join, voice:leave or disconnect: no event of another connection,
\* and no other event of c, adds c to or removes c from a room.
C25_OwnRoomChangesOnly ==
    [][ \A c \in ConnIds :
          {r \in DOMAIN voiceRooms : c \in voiceRooms[r].users}
            # {r \in DOMAIN voiceRooms' : c \in voiceRooms'[r].users} =>
          /\ last'.c = c
          /\ last'.op \in {"voice:join", "voice:leave", "disconnect"}
       ]_vars

\* C26 as stated: a stored message never changes and keeps its position, and
\* its sender name and avatar are the sender's registry values at send time,
\* the name being the sentinel if the sender had no record.
Immutable ==
    \A k \in DOMAIN conversations :
        /\ k \in DOMAIN conversations'
        /\ Len(conversations'[k]) >= Len(conversations[k])
        /\ SubSeq(conversations'[k], 1, Len(conversations[k])) = conversations[k]

C26_SnapshotOfRegistry ==
    [][ /\ Immutable
        /\ last'.op = "dm:send" =>
             LET c == last'.c
                 k == ConvId(c, last'.arg)
                 m == conversations'[k][Len(conversations'[k])]
             IN  /\ m.from = c
                 /\ m.fromName = IF users[c] = NoUser THEN Anonimo ELSE users[c].name
                 /\ m.fromAvatar = IF users[c] = NoUser THEN Undef ELSE users[c].avatar
       ]_vars

\* C26 amended: a stored message never changes and keeps its position; its
\* sender avatar is the sender's registry value at send time, and its sender
\* name is the registry name at send time, or the sentinel if the sender had
\* no record or a record with an empty name.
C26_SnapshotOrSentinel ==
    [][ /\ Immutable
        /\ last'.op = "dm:send" =>
             LET c == last'.c
                 k == ConvId(c, last'.arg)
                 m == conversations'[k][Len(conversations'[k])]
             IN  /\ m.from = c
                 /\ m.fromName = IF users[c] = NoUser \/ users[c].name = <<>>
                                 THEN Anonimo ELSE users[c].name
                 /\ m.fromAvatar = IF users[c] = NoUser THEN Undef ELSE users[c].avatar
       ]_vars

\* C26 witness: a message sent under the name Alice is still stored under
\* that name after the sender was renamed, and a later message of the
\* conversation carries the new name.
C26_Witness ==
    \E k \in DOMAIN conversations :
        /\ Len(conversations[k]) >= 2
        /\ conversations[k][1].fromName = <<"Alice">>
        /\ conversations[k][2].fromName = <<"Bob">>
        /\ conversations[k][1].from = conversations[k][2].from
        /\ users[conversations[k][1].from] # NoUser
        /\ users[conversations[k][1].from].name = <<"Bob">>

\* C27: the conversation store is append-only and outlives its
\* participants: dm:history creates no conversation and answers with the
\* stored sequence, or the empty one for a pair without messages; a
\* disconnect leaves every conversation as it is; no step removes a
\* conversation or a message.
C27_AppendOnlyStore ==
    [][ /\ last'.op = "dm:history" =>
             LET k == ConvId(last'.c, last'.arg)
             IN  /\ conversations' = conversations
                 /\ Len(out') = 1
                 /\ out'[1].ev = "dm:history"
                 /\ out'[1].to = {last'.c}
                 /\ out'[1].p.messages =
                      IF k \in DOMAIN conversations THEN conversations[k] ELSE <<>>
        /\ last'.op \in {"disconnect", "disconnect again"} =>
             conversations' = conversations
        /\ DOMAIN conversations \subseteq DOMAIN conversations'
        /\ \A k \in DOMAIN conversations :
             Len(conversations'[k]) >= Len(conversations[k])
        /\ Cardinality(DOMAIN conversations') >= Cardinality(DOMAIN conversations)
       ]_vars

\* C27 witness: dm:history has just answered with the empty sequence for a
\* pair without conversation, and created none, while the conversation of a
\* sender that has disconnected is still stored.
C27_Witness ==
    /\ last.op = "dm:history"
    /\ out[1].p.messages = <<>>
    /\ ConvId(last.c, last.arg) \notin DOMAIN conversations
    /\ \E k \in DOMAIN conversations :
         /\ Len(conversations[k]) > 0
         /\ conn[conversations[k][1].from] = "gone"

\* C28: capacity is never exceeded: every voice room with a limit above 0
\* has at most that many members, whatever voice:create-room, voice:join,
\* voice:leave and disconnect events happened, a member of a full room
\* joining that room again included.
C28_CapacityKept ==
    \A r \in DOMAIN voiceRooms :
        voiceRooms[r].limit > 0 => Cardinality(voiceRooms[r].users) <= voiceRooms[r].limit

\* C28 witness: the single member of a room of limit 1 has just asked to
\* join that room again; it was refused and is still the only member.
C28_Witness ==
    /\ last.op = "voice:join"
    /\ last.arg \in DOMAIN voiceRooms
    /\ voiceRooms[last.arg].limit = 1
    /\ voiceRooms[last.arg].users = {last.c}
    /\ Len(out) = 1
    /\ out[1].ev = "voice:error"

\* C29: no dangling references: every member of a voice room and every
\* viewer of a stream is a connected connection, and a connection that has
\* disconnected has no record in users, is in no room and is neither
\* broadcaster nor viewer of a stream.
C29_NoDanglingIds ==
    /\ \A r \in DOMAIN voiceRooms : \A x \in voiceRooms[r].users : conn[x] = "connected"
    /\ \A id \in DOMAIN streams : \A x \in streams[id].viewers : conn[x] = "connected"
    /\ \A c \in ConnIds :
         conn[c] = "gone" =>
           /\ users[c] = NoUser
           /\ \A r \in DOMAIN voiceRooms : c \notin voiceRooms[r].users
           /\ \A id \in DOMAIN streams : c \notin streams[id].viewers /\ streams[id].userId # c

\* C29 witness: a logged-in member of a room that watched a stream has
\* disconnected, while the room still has a member and the stream a viewer.
C29_Witness ==
    /\ last.op = "disconnect"
    /\ last.c = <<"a">>
    /\ \E i \in 1..Len(out) : out[i].ev = "voice:user-left" /\ out[i].p.userName = <<"Alice">>
    /\ \E r \in DOMAIN voiceRooms : voiceRooms[r].users # {}
    /\ \E id \in DOMAIN streams : streams[id].viewers # {}

\* C30: every record of the presence registry carries as its id the
\* connection id it is stored under, whatever the login and update payloads
\* contain, an id field included.
C30_RecordIdIsKey ==
    \A c \in ConnIds : users[c] # NoUser => users[c].id = c

\* C31: conversations are isolated per unordered pair: every message that
\* dm:history returns to connection c asking for peer x has {from, to} =
\* {c, x}, and two different unordered pairs of connection ids never share a
\* conversation key, so a connection never reads a conversation it is not a
\* party to.
C31_IsolatedPairs ==
    [][ /\ last'.op = "dm:history" =>
             \A i \in 1..Len(out'[1].p.messages) :
                 {out'[1].p.messages[i].from, out'[1].p.messages[i].to}
                    = {last'.c, last'.arg}
        /\ \A p \in ConnIds, q \in ConnIds, r \in ConnIds, t \in ConnIds :
             ConvId(p, q) = ConvId(r, t) => {p, q} = {r, t}
       ]_vars

\* C32: the notification scope matches the bookkeeping: the connections
\* subscribed to voice:<roomId> are that room's members, and the connections
\* subscribed to stream:<streamId> of an existing stream are its broadcaster
\* and its viewers.
C32_ScopeIsBookkeeping ==
    /\ \A r \in DOMAIN voiceRooms :
         {x \in ConnIds : VoiceScope(r) \in adapter[x]} = voiceRooms[r].users
    /\ \A id \in DOMAIN streams :
         {x \in ConnIds : StreamScope(id) \in adapter[x]}
            = {streams[id].userId} \cup streams[id].viewers

====
